---- MODULE Spec2Model ----
(***************************************************************************)
(* Model of waveform-builder.js: the virtual windowed waveform cache       *)
(* (VirtualChannel, the sliding window over a backing channel refreshed by *)
(* detail fetches; DynamicLoadWaveForm; DynamicResampleWaveform) and the   *)
(* acquisition of the waveform by WaveformBuilder.init.                    *)
(*                                                                         *)
(* Arithmetic is exact: a length or a scale that need not be an integer    *)
(* (duration * sample_rate / scale of line 417, samples_per_pixel of line  *)
(* 285) is kept as a fraction num / den with den > 0.                      *)
(***************************************************************************)
EXTENDS Integers, Sequences, FiniteSets, TLC

(***************************************************************************)
(* Bounds of the model.                                                    *)
(***************************************************************************)
\* Half span of a window.  The source fixes it at 2000 (line 206); the model
\* scales it down so that windows, overlaps and window borders are all
\* explored.  Nothing below depends on its value.
maxWindowSize == 2
\* Accessed pixel indices range over -1 .. IndexAbove.
IndexAbove == 4
\* Number of detail requests one channel issues in a run.
MaxRequests == 2
\* Length of the backing (original) waveform.
BackingLength == 2
\* A requested width exceeds the backing length by MaxExtraLength.
MaxExtraLength == 2
\* A detail response is as long as a window, or LengthSlack pairs shorter or longer.
LengthSlack == 1
\* Resampling a detail response shortens it by 0 or by MaxCut pairs.
MaxCut == 1
\* Lengths and scales of the base waveforms given to resample.
MaxBaseLength == 3
MaxBaseScale == 3
\* Scales and widths requested from resample.
MaxArgument == 4
\* Channel indices asked of a view range over 0 .. MaxChannelIndex.
MaxChannelIndex == 1
\* Decoded top-level waveforms and audio have 1 .. MaxChannels channels.
MaxChannels == 3
MaxIterations == 18

VARIABLES
    data,          \* VirtualChannel.data: flat array min0, max0, min1, max1, ...
    dataOffset,    \* VirtualChannel.dataOffset
    xhr,           \* VirtualChannel.xhr: 0 when unset, else the number of the request
    requests,      \* every XMLHttpRequest created so far, in order of creation
    original,      \* the backing waveform (DynamicResampleWaveform over waveform-data)
    view,          \* what DynamicResampleWaveform.resample returned last
    refreshCalls,  \* number of invocations of _refreshCallback
    detached,      \* requests sent by the VirtualChannels of views made earlier
    options,       \* the options object given to WaveformBuilder.init
    window,        \* what the platform offers: window.ArrayBuffer, window.JSON, isXhr2
    currentSrc,    \* mediaElement.currentSrc: "" while no source is selected
    topXhr,        \* the requests made by _createXHR, in order of creation
    canplayListeners, \* listeners registered with once('player.canplay')
    audioTasks,    \* the WaveformData.createFromAudio calls made
    callbackLog,   \* the invocations of init's callback, in order
    initState,     \* "idle" before init is called, then "returned" or "threw"
    axis,          \* getAxisLabelScale: its view, its locals and where it is
    last           \* the operation that produced this state, with its results

channelVars == <<data, dataOffset, xhr, requests, original, view, refreshCalls, detached>>

builderVars == <<options, window, currentSrc, topXhr, canplayListeners, audioTasks,
                 callbackLog, initState>>

vars == <<channelVars, builderVars, axis, last>>

(***************************************************************************)
(* JavaScript values: a number, or undefined (an array hole, a read past   *)
(* the end of an array).                                                   *)
(***************************************************************************)
undefined == [def |-> FALSE, v |-> 0]
Num(n) == [def |-> TRUE, v |-> n]

\* arr[k] of a JavaScript array held as a sequence (k counts from 0)
At(arr, k) == IF k + 1 \in DOMAIN arr THEN arr[k + 1] ELSE undefined

Min2(a, b) == IF a < b THEN a ELSE b

\* Math.round(.5 + num / den) for den > 0: Math.round(x) is floor(x + 0.5)
RoundHalfPlus(num, den) == (num \div den) + 1

\* the fraction num / den
Frac(num, den) == [num |-> num, den |-> den]

\* a / b > n for a fraction a / b with b > 0 and an integer n
FracGreater(f, n) == f.num > n * f.den

RECURSIVE Gcd(_, _)
\* greatest common divisor of a >= 0 and b >= 0
Gcd(a, b) == IF b = 0 THEN a ELSE Gcd(b, a % b)

\* the number a fraction with den > 0 stands for, in lowest terms
Reduce(f) ==
    LET g == Gcd(IF f.num < 0 THEN 0 - f.num ELSE f.num, f.den)
    IN  Frac(f.num \div g, f.den \div g)

(***************************************************************************)
(* DynamicResampleWaveform and DynamicLoadWaveForm                         *)
(***************************************************************************)
\* resample arguments: an absent scale or width is 0 (falsy, as undefined is)
ScaleArgs(s) == [scale |-> s, width |-> 0]
WidthArgs(w) == [scale |-> 0, width |-> w]
NoArgs == [scale |-> 0, width |-> 0]

\* waveformData.duration * waveformData.sample_rate: the library's duration is
\* length * scale / sample_rate
DurationTimesSampleRate(w) == Frac(w.length * w.scale * w.sample_rate, w.sample_rate)

\* length of DynamicResampleWaveform.resample
TargetLength(w, args) ==
    IF args.scale # 0
    THEN Frac(DurationTimesSampleRate(w).num, DurationTimesSampleRate(w).den * args.scale)
    ELSE Frac(args.width, 1)

\* Virtualizes with a fault: the comparison is < instead of >
Virtualizes_Reversed(w, args) ==
    TargetLength(w, args).num < w.length * TargetLength(w, args).den

\* Virtualizes with a fault: the comparison is >= instead of >
Virtualizes_OrEqual(w, args) ==
    TargetLength(w, args).num >= w.length * TargetLength(w, args).den

\* the test length > this.waveformData.length of resample
Virtualizes(w, args) == FracGreater(TargetLength(w, args), w.length)

\* no waveform
NoWaveform == [length |-> 0, scale |-> 0, sample_rate |-> 0, channels |-> 0, channel |-> << >>]

\* DynamicLoadWaveForm with a fault: the ratio of the lengths is inverted
DynamicLoadWaveForm_InvertedRatio(w, length) ==
    IF w.channels # 1
    THEN [kind |-> "throws", error |-> "No support for multiple channels",
          waveformData |-> NoWaveform,
          length |-> Frac(0, 1), samples_per_pixel |-> Frac(0, 1)]
    ELSE [kind |-> "virtual", error |-> "",
          waveformData |-> w,
          length |-> length,
          samples_per_pixel |-> Frac(w.scale * length.num, w.length * length.den)]

\* DynamicLoadWaveForm with a fault: the channel count is not tested
DynamicLoadWaveForm_AnyChannels(w, length) ==
    [kind |-> "virtual", error |-> "",
     waveformData |-> w,
     length |-> length,
     samples_per_pixel |-> Frac(w.scale * w.length * length.den, length.num)]

\* new DynamicLoadWaveForm(waveformData, length, ...): the object built, or the
\* exception raised
DynamicLoadWaveForm(w, length) ==
    IF w.channels # 1
    THEN [kind |-> "throws", error |-> "No support for multiple channels",
          waveformData |-> NoWaveform,
          length |-> Frac(0, 1), samples_per_pixel |-> Frac(0, 1)]
    ELSE [kind |-> "virtual", error |-> "",
          waveformData |-> w,
          length |-> length,
          samples_per_pixel |-> Frac(w.scale * w.length * length.den, length.num)]

\* the getters of DynamicLoadWaveForm
get_sample_rate(v) == v.waveformData.sample_rate
get_length(v) == v.length
get_scale(v) == v.samples_per_pixel
get_channels(v) == v.waveformData.channels

\* channel with a fault: every index yields the channel
channel_AnyIndex(index) == [threw |-> FALSE, error |-> "", obj |-> "VirtualChannel"]

\* DynamicLoadWaveForm.channel(index)
channel(index) ==
    IF index # 0
    THEN [threw |-> TRUE, error |-> "Invalid channel", obj |-> "none"]
    ELSE [threw |-> FALSE, error |-> "", obj |-> "VirtualChannel"]

\* DynamicLoadWaveForm_resample with a fault: a width is accepted
DynamicLoadWaveForm_resample_WidthAccepted(args) ==
    IF args.width # 0
    THEN [threw |-> FALSE, error |-> ""]
    ELSE [threw |-> TRUE, error |-> "A resampled waveform can't be resampled"]

\* DynamicLoadWaveForm.resample(args)
DynamicLoadWaveForm_resample(args) ==
    [threw |-> TRUE, error |-> "A resampled waveform can't be resampled"]

\* lengths the library's waveformData.resample(args) may give the downsampled
\* waveform: the target length, rounded down or up when it is no integer
PlainLengths(w, args) ==
    LET t == TargetLength(w, args)
    IN  { n \in 0..w.length : n * t.den <= t.num /\ t.num < (n + 1) * t.den }
        \cup { n \in 0..w.length : (n - 1) * t.den < t.num /\ t.num <= n * t.den }

\* DynamicResampleWaveform.resample(args, callback), the library's resample
\* giving a waveform of length plainLength
resample(w, args, plainLength) ==
    IF Virtualizes(w, args)
    THEN DynamicLoadWaveForm(w, TargetLength(w, args))
    ELSE [kind |-> "plain", error |-> "", waveformData |-> NoWaveform,
          length |-> Frac(plainLength, 1), samples_per_pixel |-> Frac(0, 1)]

\* the external calls of resample, in program order
ResampleCalls(w, args) ==
    CASE ~Virtualizes(w, args) -> <<"waveformData.resample">>
      [] w.channels # 1 -> <<"new DynamicLoadWaveForm">>
      [] OTHER -> <<"new DynamicLoadWaveForm", "new VirtualChannel">>

NoView == [kind |-> "none", error |-> "", waveformData |-> NoWaveform,
           length |-> Frac(0, 1), samples_per_pixel |-> Frac(0, 1)]

(***************************************************************************)
(* The backing waveform and the detail responses.                          *)
(***************************************************************************)
\* Pair idx of the backing channel: min <= max, and the pair tells the index
BackingPair(idx) == [min |-> 0 - (idx + 3), max |-> idx + 3]

\* Pair k of a resampled detail response: min <= max
ResponsePair(k) == [min |-> 0 - (k % 3), max |-> (k + 1) % 3]

\* Lengths of the decoded detail payloads
ResponseLengths ==
    { n \in { 2 * maxWindowSize - LengthSlack, 2 * maxWindowSize,
              2 * maxWindowSize + LengthSlack } : n >= 0 }

\* What the environment may deliver for a detail request: the HTTP status, the
\* channel count and length of the decoded payload, and channel 0 of the payload
\* resampled to samples_per_pixel.  Resampling never lengthens a waveform.
Responses ==
    { [status |-> 404, channels |-> 1, length |-> 0, resampled |-> << >>],
      [status |-> 200, channels |-> 2, length |-> 1, resampled |-> << >>] }
    \cup
    { [status |-> 200, channels |-> 1, length |-> n,
       resampled |-> [k \in 1..(n - cut) |-> ResponsePair(k - 1)]] :
         n \in ResponseLengths, cut \in {0, MaxCut} }

\* A read past the end of the resampled channel yields undefined with one
\* payload adapter of the waveform-data library and raises with another.
PastEndOutcomes == {"undefined", "throws"}

(***************************************************************************)
(* VirtualChannel                                                          *)
(***************************************************************************)
\* number of (min, max) pairs the window holds: data.length / 2
WindowSize == Len(data) \div 2

in_range(index) == index >= dataOffset /\ index < dataOffset + WindowSize

\* AlreadyAvailable with a fault: the early return is missing
AlreadyAvailable_Never(index) == FALSE

\* AlreadyAvailable with a fault: the window's first index is left out
AlreadyAvailable_StrictLower(index) == index > dataOffset /\ index <= dataOffset + WindowSize

\* the guard of ensureIndexAvailable's early return
AlreadyAvailable(index) == index >= dataOffset /\ index <= dataOffset + WindowSize

\* sampleIdxInOriginalWave with a fault: Math.round without the added .5
sampleIdxInOriginalWave_NoHalf(i) ==
    (2 * i * view.samples_per_pixel.num + view.samples_per_pixel.den * original.scale)
        \div (2 * view.samples_per_pixel.den * original.scale)

\* Math.round(.5 + i * samples_per_pixel / originalWaveform.scale)
sampleIdxInOriginalWave(i) ==
    RoundHalfPlus(i * view.samples_per_pixel.num, view.samples_per_pixel.den * original.scale)

\* orgChannel.min_sample / max_sample for an index inside the backing channel
orgChannelSample(idx, isMax) ==
    IF isMax THEN Num(original.channel[idx + 1].max) ELSE Num(original.channel[idx + 1].min)

\* NewWindowValue with a fault: the previous window is not consulted
NewWindowValue_Reseeded(i, isMax) ==
    LET idx == sampleIdxInOriginalWave(i)
    IN  IF idx >= 0 /\ idx < original.length
        THEN orgChannelSample(idx, isMax)
        ELSE undefined

\* the value ensureIndexAvailable stores for pixel i of the new window
NewWindowValue(i, isMax) ==
    IF in_range(i)
    THEN At(data, (i - dataOffset) * 2 + (IF isMax THEN 1 ELSE 0))
    ELSE LET idx == sampleIdxInOriginalWave(i)
         IN  IF idx >= 0 /\ idx < original.length
             THEN orgChannelSample(idx, isMax)
             ELSE undefined

\* newData of ensureIndexAvailable for the span [from, to)
NewData(from, to) ==
    [k \in 1..(2 * (to - from)) |-> NewWindowValue(from + (k - 1) \div 2, (k - 1) % 2 = 1)]

\* AbortStored with a fault: the stored request is left running
AbortStored_Skipped == requests

\* xhr.abort() on the stored request: it cancels a request still in flight
AbortStored ==
    IF xhr # 0 /\ requests[xhr].state = "sent"
    THEN [requests EXCEPT ![xhr].state = "aborted"]
    ELSE requests

\* the argument of this._detailUriProvider for window bound n:
\* n * this._samples_per_pixel / 48000
detailUriProviderArgument(n) ==
    LET s == Reduce(view.samples_per_pixel)
    IN  Reduce(Frac(n * s.num, s.den * 48000))

\* the external calls of one refresh, in program order
RefreshCalls == IF xhr # 0 THEN <<"detailUriProvider", "abort", "open", "send">>
                ELSE <<"detailUriProvider", "open", "send">>

\* ensureIndexAvailable(index): the new values of data, dataOffset, xhr and
\* requests, and the calls made
ensureIndexAvailable(index) ==
    IF AlreadyAvailable(index)
    THEN [data |-> data, dataOffset |-> dataOffset, xhr |-> xhr,
          requests |-> requests, calls |-> << >>]
    ELSE LET from == index - maxWindowSize
             to   == index + maxWindowSize
         IN  [data |-> NewData(from, to), dataOffset |-> from,
              xhr |-> Len(requests) + 1,
              requests |-> Append(AbortStored,
                                  [from |-> from, to |-> to, state |-> "sent",
                                   fromSeconds |-> detailUriProviderArgument(from),
                                   toSeconds |-> detailUriProviderArgument(to)]),
              calls |-> RefreshCalls]

NoResponse == [status |-> 0, channels |-> 0, length |-> 0, resampled |-> << >>]

\* the record of a step: the operation, its arguments, its result and its calls
NoCall == [op |-> "init", index |-> 0, args |-> NoArgs, ret |-> undefined, calls |-> << >>,
           req |-> 0, resp |-> NoResponse, threw |-> FALSE, error |-> "", obj |-> "none"]

\* the accessor's result: min_sample and max_sample read the window after
\* ensureIndexAvailable, ensureIndexAvailable itself returns nothing
AccessResult(op, index, e) ==
    CASE op = "min_sample" -> At(e.data, (index - e.dataOffset) * 2)
      [] op = "max_sample" -> At(e.data, (index - e.dataOffset) * 2 + 1)
      [] OTHER -> undefined

AccessOps == {"min_sample", "max_sample", "ensureIndexAvailable"}
AccessIndices == (0 - 1)..IndexAbove

\* min_sample(index), max_sample(index) or ensureIndexAvailable(index)
Access(op, index) ==
    LET e == ensureIndexAvailable(index)
    IN  /\ AlreadyAvailable(index) \/ Len(requests) < MaxRequests
        /\ data' = e.data
        /\ dataOffset' = e.dataOffset
        /\ xhr' = e.xhr
        /\ requests' = e.requests
        /\ last' = [NoCall EXCEPT !.op = op, !.index = index,
                                   !.ret = AccessResult(op, index, e), !.calls = e.calls]
        /\ UNCHANGED <<original, view, refreshCalls, detached>>
        /\ UNCHANGED <<builderVars, axis>>

\* min_sample(index), max_sample(index) or ensureIndexAvailable(index) with a
\* _detailUriProvider that raises: the call ends at line 228, after the new
\* window was stored and before abort() and the new request
AccessProviderThrows(op, index) ==
    /\ ~AlreadyAvailable(index)
    /\ data' = NewData(index - maxWindowSize, index + maxWindowSize)
    /\ dataOffset' = index - maxWindowSize
    /\ last' = [NoCall EXCEPT !.op = op, !.index = index, !.calls = <<"detailUriProvider">>,
                               !.threw = TRUE, !.error = "raised by detailUriProvider"]
    /\ UNCHANGED <<xhr, requests, original, view, refreshCalls, detached>>
    /\ UNCHANGED <<builderVars, axis>>

\* numSamplesToCopy with a fault: Math.min with the span is missing
numSamplesToCopy_NoMin(r, resp) == resp.length

\* numSamplesToCopy of the load handler of request r
numSamplesToCopy(r, resp) == Min2(requests[r].to - requests[r].from, resp.length)

\* channel.min_sample(k) / channel.max_sample(k) of the resampled response
ResampledSample(resp, k, isMax) ==
    IF k < Len(resp.resampled)
    THEN (IF isMax THEN Num(resp.resampled[k + 1].max) ELSE Num(resp.resampled[k + 1].min))
    ELSE undefined

\* the handler raises when it reads past the end of the resampled channel and
\* the library raises on such a read
CopyThrows(r, resp, pastEnd) ==
    pastEnd = "throws" /\ numSamplesToCopy(r, resp) > Len(resp.resampled)

\* number of pairs the copy loop stores before it ends or raises
PairsStored(r, resp, pastEnd) ==
    IF CopyThrows(r, resp, pastEnd) THEN Len(resp.resampled) ELSE numSamplesToCopy(r, resp)

\* this.data after the copy loop: this.data[dataIdx * 2] and
\* this.data[dataIdx * 2 + 1] are stored for dataIdx = 0, 1, ...; a store past
\* the end of the array lengthens it
CopiedData(r, resp, pastEnd) ==
    LET stored == 2 * PairsStored(r, resp, pastEnd)
    IN  [k \in 1..(IF stored > Len(data) THEN stored ELSE Len(data)) |->
            IF k <= stored
            THEN ResampledSample(resp, (k - 1) \div 2, (k - 1) % 2 = 1)
            ELSE data[k]]

\* HandlerAccepts with a fault: the status check is missing
HandlerAccepts_AnyStatus(resp) == resp.channels = 1

\* HandlerAccepts with a fault: the channel count is not tested
HandlerAccepts_AnyChannels(resp) == resp.status = 200

\* whether the load handler reaches the copy loop
HandlerAccepts(resp) == resp.status = 200 /\ resp.channels = 1

\* the external calls of the load handler, in program order
OnLoadCalls(r, resp, pastEnd) ==
    CASE resp.status # 200 -> <<"console.log">>
      [] resp.channels # 1 -> <<"WaveformData.create", "console.log">>
      [] CopyThrows(r, resp, pastEnd) -> <<"WaveformData.create", "resample">>
      [] OTHER -> <<"WaveformData.create", "resample", "refreshCallback">>

\* xhr.onload of request r, delivered with response resp
OnLoad(r, resp, pastEnd) ==
    /\ requests' = [requests EXCEPT ![r].state = "done"]
    /\ IF HandlerAccepts(resp)
       THEN /\ data' = CopiedData(r, resp, pastEnd)
            /\ refreshCalls' = IF CopyThrows(r, resp, pastEnd)
                               THEN refreshCalls ELSE refreshCalls + 1
       ELSE UNCHANGED <<data, refreshCalls>>
    /\ last' = [NoCall EXCEPT !.op = "load", !.calls = OnLoadCalls(r, resp, pastEnd),
                               !.req = r, !.resp = resp,
                               !.threw = HandlerAccepts(resp) /\ CopyThrows(r, resp, pastEnd)]
    /\ UNCHANGED <<dataOffset, xhr, original, view, detached>>
    /\ UNCHANGED <<builderVars, axis>>

\* the load event of a request in flight
Load(r, resp, pastEnd) ==
    /\ requests[r].state = "sent"
    /\ r \notin detached
    /\ OnLoad(r, resp, pastEnd)

\* a transport error of a request in flight: the detail request has no
\* onerror handler, so nothing but the request changes
TransportError(r) ==
    /\ requests[r].state = "sent"
    /\ requests' = [requests EXCEPT ![r].state = "failed"]
    /\ last' = [NoCall EXCEPT !.op = "error", !.req = r]
    /\ UNCHANGED <<data, dataOffset, xhr, original, view, refreshCalls, detached>>
    /\ UNCHANGED <<builderVars, axis>>

\* the load event of a request whose abort() came too late to stop it
LateLoad(r, resp, pastEnd) ==
    /\ requests[r].state = "aborted"
    /\ r \notin detached
    /\ OnLoad(r, resp, pastEnd)

(***************************************************************************)
(* WaveformBuilder: init and the handlers it installs                      *)
(***************************************************************************)
\* options.webAudio when it is not given
NoWebAudio == [set |-> FALSE, audioContext |-> "none", audioBuffer |-> FALSE,
               multiChannel |-> FALSE, scale |-> 0]

\* The options of init.  dataUri and waveformData are "none" (absent or falsy),
\* "object", "string", or "other" (truthy, neither an object nor a string); the
\* Boolean fields tell whether the named member is given; audioContext values
\* are "none", "valid" (an AudioContext) and "invalid" (anything else truthy).
NoOptions ==
    [dataUri |-> "none", dataUriArraybuffer |-> FALSE, dataUriJson |-> FALSE,
     dataUriDefaultFormat |-> "none",
     waveformData |-> "none", waveformDataJson |-> FALSE, waveformDataArraybuffer |-> FALSE,
     webAudio |-> NoWebAudio, audioContext |-> "none",
     withCredentials |-> FALSE]

\* options.zoomLevels[0]
zoomLevels0 == 512

\* what the platform offers: window.ArrayBuffer, window.JSON, and isXhr2 of
\* line 17.  The platform has an AudioContext constructor (window.AudioContext
\* or window.webkitAudioContext).
Windows == [ArrayBuffer : BOOLEAN, JSON : BOOLEAN, isXhr2 : BOOLEAN]

NoWindow == [ArrayBuffer |-> FALSE, JSON |-> FALSE, isXhr2 |-> FALSE]

\* the second argument of the callback when there is none
NoResult == [kind |-> "none", channels |-> 0]

\* callback(error): one invocation; raised tells that the caller's callback
\* raised an exception
ErrorEntry(msg, raised) == [error |-> msg, waveform |-> NoResult, raised |-> raised]

\* callback(null, waveform)
WaveformEntry(kind, channels, raised) ==
    [error |-> "", waveform |-> [kind |-> kind, channels |-> channels], raised |-> raised]

\* What one run of init or of a handler does: the options as it leaves them, the
\* callback invocations, the requests sent, the listeners registered, the
\* createFromAudio calls started, whether an exception escaped, and its calls.
NoOutcome(o) ==
    [options |-> o, cb |-> << >>, req |-> << >>, listen |-> 0, tasks |-> << >>,
     threw |-> FALSE, calls |-> << >>]

\* a run that ends by invoking the callback
CallbackOut(o, entry) ==
    [NoOutcome(o) EXCEPT !.cb = <<entry>>, !.threw = entry.raised, !.calls = <<"callback">>]

\* _createXHR(url, requestType, withCredentials, onLoad, onError) followed by
\* xhr.send(): kind names the handlers, split_channels is webAudio.multiChannel
\* of the handlers' closure
_createXHR(win, url, requestType, withCredentials, kind, split_channels) ==
    [kind |-> kind, url |-> url,
     responseType |-> IF win.isXhr2 THEN requestType ELSE "",
     withCredentials |-> win.isXhr2 /\ withCredentials,
     split_channels |-> split_channels,
     state |-> "sent"]

\* dataUri of _getRemoteWaveformData once it is an object: the members set
RemoteDataUri(o) ==
    IF o.dataUri = "object"
    THEN [arraybuffer |-> IF o.dataUriArraybuffer THEN "dataUri.arraybuffer" ELSE "",
          json |-> IF o.dataUriJson THEN "dataUri.json" ELSE ""]
    ELSE [arraybuffer |-> IF o.dataUriDefaultFormat = "arraybuffer" THEN "dataUri" ELSE "",
          json |-> IF o.dataUriDefaultFormat \in {"none", "json"} THEN "dataUri" ELSE ""]

\* RemoteRequest with a fault: the connectors are tried in the order JSON,
\* ArrayBuffer
RemoteRequest_JsonFirst(win, dataUri) ==
    LET none == [requestType |-> "null", url |-> ""]
        first == IF win.JSON
                 THEN [requestType |-> "json", url |-> dataUri.json]
                 ELSE none
    IN  IF win.JSON /\ first.url # ""
        THEN first
        ELSE IF win.ArrayBuffer
             THEN [requestType |-> "arraybuffer", url |-> dataUri.arraybuffer]
             ELSE first

\* ['ArrayBuffer', 'JSON'].some(...): requestType and url after the loop
RemoteRequest(win, dataUri) ==
    LET none == [requestType |-> "null", url |-> ""]
        first == IF win.ArrayBuffer
                 THEN [requestType |-> "arraybuffer", url |-> dataUri.arraybuffer]
                 ELSE none
    IN  IF win.ArrayBuffer /\ first.url # ""
        THEN first
        ELSE IF win.JSON
             THEN [requestType |-> "json", url |-> dataUri.json]
             ELSE first

\* _getRemoteWaveformData(options, callback) up to xhr.send()
_getRemoteWaveformData(o, win, raises) ==
    IF o.dataUri \notin {"object", "string"}
    THEN CallbackOut(o, ErrorEntry("Peaks.init(): The dataUri option must be an object",
                                   raises[1]))
    ELSE LET r == RemoteRequest(win, RemoteDataUri(o))
         IN  IF r.url = ""
             THEN CallbackOut(o, ErrorEntry(
                      "Peaks.init(): Unable to determine a compatible dataUri format for this browser",
                      raises[1]))
             ELSE [NoOutcome(o) EXCEPT
                      !.req = <<_createXHR(win, r.url, r.requestType, o.withCredentials,
                                           "remote", FALSE)>>,
                      !.calls = <<"open", "send">>]

\* what WaveformData.create gives: a waveform with some number of channels, or
\* an exception
Created == { [threw |-> TRUE, channels |-> 0] }
               \cup { [threw |-> FALSE, channels |-> c] : c \in 1..MaxChannels }

\* _buildWaveformFromLocalData with a fault: the channel count is not tested
_buildWaveformFromLocalData_AnyChannels(o, created, raises) ==
    IF o.waveformData # "object"
    THEN CallbackOut(o, ErrorEntry("Peaks.init(): The waveformData option must be an object",
                                   raises[1]))
    ELSE IF ~(o.waveformDataJson \/ o.waveformDataArraybuffer)
    THEN CallbackOut(o, ErrorEntry(
             "Peaks.init(): Unable to determine a compatible waveformData format", raises[1]))
    ELSE IF created.threw
    THEN [CallbackOut(o, ErrorEntry("raised by WaveformData.create", raises[1]))
             EXCEPT !.calls = <<"WaveformData.create", "callback">>]
    ELSE LET first ==
                 IF FALSE
                 THEN ErrorEntry(
                          "Peaks.init(): Only mono or stereo waveforms are currently supported",
                          raises[1])
                 ELSE WaveformEntry("WaveformData", created.channels, raises[1])
         IN  IF first.raised
             THEN [NoOutcome(o) EXCEPT
                      !.cb = <<first, ErrorEntry("raised by the callback", raises[2])>>,
                      !.threw = raises[2],
                      !.calls = <<"WaveformData.create", "callback", "callback">>]
             ELSE [NoOutcome(o) EXCEPT
                      !.cb = <<first>>,
                      !.calls = <<"WaveformData.create", "callback">>]

\* _buildWaveformFromLocalData(options, callback): the try block runs
\* WaveformData.create and the callback, the catch block invokes the callback
\* with whatever was raised in the try block
_buildWaveformFromLocalData(o, created, raises) ==
    IF o.waveformData # "object"
    THEN CallbackOut(o, ErrorEntry("Peaks.init(): The waveformData option must be an object",
                                   raises[1]))
    ELSE IF ~(o.waveformDataJson \/ o.waveformDataArraybuffer)
    THEN CallbackOut(o, ErrorEntry(
             "Peaks.init(): Unable to determine a compatible waveformData format", raises[1]))
    ELSE IF created.threw
    THEN [CallbackOut(o, ErrorEntry("raised by WaveformData.create", raises[1]))
             EXCEPT !.calls = <<"WaveformData.create", "callback">>]
    ELSE LET first ==
                 IF created.channels # 1 /\ created.channels # 2
                 THEN ErrorEntry(
                          "Peaks.init(): Only mono or stereo waveforms are currently supported",
                          raises[1])
                 ELSE WaveformEntry("WaveformData", created.channels, raises[1])
         IN  IF first.raised
             THEN [NoOutcome(o) EXCEPT
                      !.cb = <<first, ErrorEntry("raised by the callback", raises[2])>>,
                      !.threw = raises[2],
                      !.calls = <<"WaveformData.create", "callback", "callback">>]
             ELSE [NoOutcome(o) EXCEPT
                      !.cb = <<first>>,
                      !.calls = <<"WaveformData.create", "callback">>]

\* webAudioOptions.scale = options.zoomLevels[0] when they differ
WithZoomScale(o) == [o EXCEPT !.webAudio.scale = zoomLevels0]

\* _requestAudioAndBuildWaveformData with a fault: the url is not tested
_requestAudioAndBuildWaveformData_AnyUrl(o, win, url) ==
    [NoOutcome(o) EXCEPT
        !.req = <<_createXHR(win, url, "arraybuffer", o.withCredentials,
                             "audio", o.webAudio.multiChannel)>>,
        !.calls = <<"open", "send">>]

\* _requestAudioAndBuildWaveformData(url, webAudio, withCredentials, callback)
\* up to xhr.send()
_requestAudioAndBuildWaveformData(o, win, url) ==
    IF url = ""
    THEN [NoOutcome(o) EXCEPT !.calls = <<"logger">>]
    ELSE [NoOutcome(o) EXCEPT
             !.req = <<_createXHR(win, url, "arraybuffer", o.withCredentials,
                                  "audio", o.webAudio.multiChannel)>>,
             !.calls = <<"open", "send">>]

\* _buildWaveformDataUsingWebAudio(options, callback)
_buildWaveformDataUsingWebAudio(o, win, src, raises) ==
    IF o.webAudio.audioContext # "valid"
    THEN CallbackOut(o, ErrorEntry(
             "Peaks.init(): The webAudio.audioContext option must be a valid AudioContext",
             raises[1]))
    ELSE IF src # ""
    THEN _requestAudioAndBuildWaveformData(WithZoomScale(o), win, src)
    ELSE [NoOutcome(WithZoomScale(o)) EXCEPT !.listen = 1, !.calls = <<"once">>]

\* _buildWaveformDataFromAudioBuffer(options, callback)
_buildWaveformDataFromAudioBuffer(o) ==
    [NoOutcome(WithZoomScale(o)) EXCEPT
        !.tasks = <<[split_channels |-> o.webAudio.multiChannel, state |-> "pending"]>>,
        !.calls = <<"WaveformData.createFromAudio">>]

DataUriSet(o) == o.dataUri # "none"
WaveformDataSet(o) == o.waveformData # "none"
WebAudioSet(o) == o.webAudio.set
AudioContextSet(o) == o.audioContext # "none"

\* SourcesConflict with a fault: dataUri with waveformData is let through
SourcesConflict_MissingPair(o) ==
    \/ DataUriSet(o) /\ (WebAudioSet(o) \/ AudioContextSet(o))
    \/ WaveformDataSet(o) /\ (WebAudioSet(o) \/ AudioContextSet(o))

\* the test of lines 93-95
SourcesConflict(o) ==
    \/ DataUriSet(o) /\ (WebAudioSet(o) \/ AudioContextSet(o))
    \/ WaveformDataSet(o) /\ (WebAudioSet(o) \/ AudioContextSet(o))
    \/ DataUriSet(o) /\ WaveformDataSet(o)

\* options.webAudio = { audioContext: options.audioContext }
WithDeprecatedContext(o) ==
    IF AudioContextSet(o)
    THEN [o EXCEPT !.webAudio = [NoWebAudio EXCEPT !.set = TRUE,
                                                   !.audioContext = o.audioContext]]
    ELSE o

\* WaveformBuilder.prototype.init(options, callback)
init(o, win, src, created, raises) ==
    IF SourcesConflict(o)
    THEN CallbackOut(o, ErrorEntry(
             "Peaks.init(): You may only pass one source (webAudio, dataUri, or waveformData) to render waveform data.",
             raises[1]))
    ELSE LET o2 == WithDeprecatedContext(o)
         IN  IF DataUriSet(o2) THEN _getRemoteWaveformData(o2, win, raises)
             ELSE IF WaveformDataSet(o2) THEN _buildWaveformFromLocalData(o2, created, raises)
             ELSE IF WebAudioSet(o2)
             THEN (IF o2.webAudio.audioBuffer
                   THEN _buildWaveformDataFromAudioBuffer(o2)
                   ELSE _buildWaveformDataUsingWebAudio(o2, win, src, raises))
             ELSE CallbackOut(o2, ErrorEntry(
                      "Peaks.init(): You must pass an audioContext, or dataUri, or waveformData to render waveform data",
                      raises[1]))

\* what a top-level request may end with: the status, and what
\* WaveformData.create makes of the payload
TopResponses == [status : {200, 404}, created : Created]

\* the load handler of _getRemoteWaveformData with a fault: the status is not
\* tested
RemoteOnLoad_AnyStatus(o, resp, raises) ==
    IF resp.created.threw
    THEN [NoOutcome(o) EXCEPT !.threw = TRUE, !.calls = <<"new DynamicResampleWaveform">>]
    ELSE IF resp.created.channels # 1 /\ resp.created.channels # 2
    THEN CallbackOut(o, ErrorEntry(
             "Peaks.init(): Only mono or stereo waveforms are currently supported", raises[1]))
    ELSE CallbackOut(o, WaveformEntry("DynamicResampleWaveform", resp.created.channels,
                                      raises[1]))

\* the load handler of _getRemoteWaveformData (lines 465-485); the load event
\* comes with readyState 4
RemoteOnLoad(o, resp, raises) ==
    IF resp.status # 200
    THEN CallbackOut(o, ErrorEntry("Unable to fetch remote data. HTTP status", raises[1]))
    ELSE IF resp.created.threw
    THEN [NoOutcome(o) EXCEPT !.threw = TRUE, !.calls = <<"new DynamicResampleWaveform">>]
    ELSE IF resp.created.channels # 1 /\ resp.created.channels # 2
    THEN CallbackOut(o, ErrorEntry(
             "Peaks.init(): Only mono or stereo waveforms are currently supported", raises[1]))
    ELSE CallbackOut(o, WaveformEntry("DynamicResampleWaveform", resp.created.channels,
                                      raises[1]))

\* the load handler of _requestAudioAndBuildWaveformData (lines 640-661)
AudioOnLoad(o, split_channels, resp, raises) ==
    IF resp.status # 200
    THEN CallbackOut(o, ErrorEntry("Unable to fetch remote data. HTTP status", raises[1]))
    ELSE [NoOutcome(o) EXCEPT
             !.tasks = <<[split_channels |-> split_channels, state |-> "pending"]>>,
             !.calls = <<"WaveformData.createFromAudio">>]

\* the error handlers (lines 486-488, 662-664)
OnError(o, raises) == CallbackOut(o, ErrorEntry("XHR Failed", raises[1]))

\* What WaveformData.createFromAudio hands to the callback: an error, or a
\* waveform with one channel, or with as many channels as the audio has when
\* split_channels is set
AudioResults == [failed : BOOLEAN, numberOfChannels : 1..MaxChannels]

createFromAudioCallback(o, split_channels, result, raises) ==
    IF result.failed
    THEN CallbackOut(o, ErrorEntry("raised by WaveformData.createFromAudio", raises[1]))
    ELSE CallbackOut(o, WaveformEntry("WaveformData",
                                      IF split_channels THEN result.numberOfChannels ELSE 1,
                                      raises[1]))

\* whether the caller's callback raises at its first and second invocation
Raises == [1..2 -> BOOLEAN]

\* what a run leaves of the options, the callback's invocations and the
\* top-level requests; request r, when there is one, has delivered its event
Apply(out, op, r, resp) ==
    /\ options' = out.options
    /\ callbackLog' = callbackLog \o out.cb
    /\ topXhr' = IF r = 0 THEN topXhr \o out.req
                 ELSE [topXhr EXCEPT ![r].state = op] \o out.req
    /\ last' = [NoCall EXCEPT !.op = op, !.calls = out.calls, !.threw = out.threw, !.req = r,
                               !.resp = resp]

\* init(options, callback) is called
InitCall(created, raises) ==
    /\ initState = "idle"
    /\ Apply(init(options, window, currentSrc, created, raises), "WaveformBuilder.init", 0,
             NoResponse)
    /\ canplayListeners' =
          canplayListeners + init(options, window, currentSrc, created, raises).listen
    /\ audioTasks' = audioTasks \o init(options, window, currentSrc, created, raises).tasks
    /\ initState' = IF init(options, window, currentSrc, created, raises).threw
                    THEN "threw" ELSE "returned"
    /\ UNCHANGED <<window, currentSrc>>
    /\ UNCHANGED <<channelVars, axis>>

\* the player.canplay event, the media element now having the source src: a
\* listener registered with once runs and is removed
CanPlay(src) ==
    /\ initState # "idle"
    /\ currentSrc' = src
    /\ IF canplayListeners > 0
       THEN /\ Apply(_requestAudioAndBuildWaveformData(options, window, src), "canplay", 0,
                     NoResponse)
            /\ canplayListeners' = canplayListeners - 1
       ELSE /\ last' = [NoCall EXCEPT !.op = "canplay"]
            /\ UNCHANGED <<options, callbackLog, topXhr, canplayListeners>>
    /\ UNCHANGED <<window, initState, audioTasks>>
    /\ UNCHANGED <<channelVars, axis>>

\* the load event of top-level request r
TopLoad(r, resp, raises) ==
    /\ topXhr[r].state = "sent"
    /\ Apply(IF topXhr[r].kind = "remote"
             THEN RemoteOnLoad(options, resp, raises)
             ELSE AudioOnLoad(options, topXhr[r].split_channels, resp, raises),
             "top.load", r,
             [NoResponse EXCEPT !.status = resp.status, !.channels = resp.created.channels])
    /\ audioTasks' =
          audioTasks \o (IF topXhr[r].kind = "remote"
                         THEN RemoteOnLoad(options, resp, raises).tasks
                         ELSE AudioOnLoad(options, topXhr[r].split_channels, resp, raises).tasks)
    /\ UNCHANGED <<window, currentSrc, initState, canplayListeners>>
    /\ UNCHANGED <<channelVars, axis>>

\* the error event of top-level request r
TopError(r, raises) ==
    /\ topXhr[r].state = "sent"
    /\ Apply(OnError(options, raises), "top.error", r, NoResponse)
    /\ UNCHANGED <<window, currentSrc, initState, canplayListeners, audioTasks>>
    /\ UNCHANGED <<channelVars, axis>>

\* WaveformData.createFromAudio finishes task t and invokes the callback
AudioDone(t, result, raises) ==
    /\ audioTasks[t].state = "pending"
    /\ Apply(createFromAudioCallback(options, audioTasks[t].split_channels, result, raises),
             "createFromAudio", 0, NoResponse)
    /\ audioTasks' = [audioTasks EXCEPT ![t].state = "done"]
    /\ UNCHANGED <<window, currentSrc, initState, canplayListeners>>
    /\ UNCHANGED <<channelVars, axis>>

\* options.webAudio as the caller may give it
WebAudios ==
    { [set |-> TRUE, audioContext |-> c, audioBuffer |-> ab, multiChannel |-> m, scale |-> sc] :
        c \in {"valid", "invalid"}, ab \in BOOLEAN, m \in BOOLEAN, sc \in {0, zoomLevels0} }

\* every combination of sources given and not given
PresenceOptions ==
    { [NoOptions EXCEPT !.dataUri = du, !.dataUriJson = (du = "object"),
                        !.waveformData = wd, !.waveformDataJson = (wd = "object"),
                        !.webAudio = wa, !.audioContext = ac] :
        du \in {"none", "object", "string", "other"},
        wd \in {"none", "object", "other"},
        wa \in {NoWebAudio, [NoWebAudio EXCEPT !.set = TRUE, !.audioContext = "valid"]},
        ac \in {"none", "valid", "invalid"} }

\* a remote source alone
RemoteOptions ==
    { [NoOptions EXCEPT !.dataUri = du, !.dataUriArraybuffer = a, !.dataUriJson = j,
                        !.dataUriDefaultFormat = f, !.withCredentials = w] :
        du \in {"object", "string", "other"}, a \in BOOLEAN, j \in BOOLEAN,
        f \in {"none", "json", "arraybuffer"}, w \in BOOLEAN }

\* local data alone
LocalOptions ==
    { [NoOptions EXCEPT !.waveformData = wd, !.waveformDataJson = j,
                        !.waveformDataArraybuffer = a] :
        wd \in {"object", "other"}, j \in BOOLEAN, a \in BOOLEAN }

\* audio alone: webAudio, the deprecated audioContext, or both
AudioOptions ==
    { [NoOptions EXCEPT !.webAudio = wa, !.audioContext = ac, !.withCredentials = w] :
        wa \in WebAudios \cup {NoWebAudio}, ac \in {"none", "valid", "invalid"},
        w \in BOOLEAN }

InitOptions == PresenceOptions \cup RemoteOptions \cup LocalOptions \cup AudioOptions

\* no init call is under way: the state of the builder in the specifications of
\* the waveform classes
BuilderUnused ==
    /\ options = NoOptions
    /\ window = NoWindow
    /\ currentSrc = ""
    /\ topXhr = << >>
    /\ canplayListeners = 0
    /\ audioTasks = << >>
    /\ callbackLog = << >>
    /\ initState = "idle"

(***************************************************************************)
(* WaveformOrdinateAxis.getAxisLabelScale                                  *)
(***************************************************************************)
\* var steps = [1, 2, 5, 10, 20, 30]
steps == <<1, 2, 5, 10, 20, 30>>

\* var minSpacing = 60
minSpacing == 60

\* view.timeToPixels(secs) of a view that shows num pixels per den seconds:
\* Math.floor(secs * num / den)
timeToPixels(v, secs) == (secs * v.num) \div v.den

\* the views getAxisLabelScale is called with; a view with num = 0 maps every
\* time to pixel 0
AxisViews == [num : {0, 1, 2, 7, 60}, den : {1, 10, 100}]

\* getAxisLabelScale not called
NoAxis == [view |-> [num |-> 0, den |-> 1], baseSecs |-> 0, index |-> 0, secs |-> 0,
           pc |-> "idle", iterations |-> 0]

\* the locals of getAxisLabelScale(view) on entry to the loop
AxisEntry(v) == [view |-> v, baseSecs |-> 1, index |-> 0, secs |-> 0,
                 pc |-> "loop", iterations |-> 0]

\* AxisIteration with a fault: the test is pixels <= minSpacing
AxisIteration_Inclusive(a) ==
    LET secs == a.baseSecs * steps[a.index + 1]
    IN  IF timeToPixels(a.view, secs) <= minSpacing
        THEN [a EXCEPT !.secs = secs,
                       !.baseSecs = IF a.index + 1 = Len(steps)
                                    THEN a.baseSecs * 60 ELSE a.baseSecs,
                       !.index = IF a.index + 1 = Len(steps) THEN 0 ELSE a.index + 1,
                       !.iterations = a.iterations + 1]
        ELSE [a EXCEPT !.secs = secs, !.pc = "done", !.iterations = a.iterations + 1]

\* one pass of the for (;;) loop
AxisIteration(a) ==
    LET secs == a.baseSecs * steps[a.index + 1]
    IN  IF timeToPixels(a.view, secs) < minSpacing
        THEN [a EXCEPT !.secs = secs,
                       !.baseSecs = IF a.index + 1 = Len(steps)
                                    THEN a.baseSecs * 60 ELSE a.baseSecs,
                       !.index = IF a.index + 1 = Len(steps) THEN 0 ELSE a.index + 1,
                       !.iterations = a.iterations + 1]
        ELSE [a EXCEPT !.secs = secs, !.pc = "done", !.iterations = a.iterations + 1]

\* getAxisLabelScale(view) is called
getAxisLabelScale(v) ==
    /\ axis.pc # "loop"
    /\ axis' = AxisEntry(v)
    /\ UNCHANGED <<channelVars, builderVars, last>>

\* the loop makes one pass; the model follows it for MaxIterations passes
AxisLoop ==
    /\ axis.pc = "loop"
    /\ axis.iterations < MaxIterations
    /\ axis' = AxisIteration(axis)
    /\ UNCHANGED <<channelVars, builderVars, last>>

(***************************************************************************)
(* Specifications                                                          *)
(***************************************************************************)
\* the backing waveform of the channel: one channel, at scale MaxBaseScale
BackingWaveform ==
    [length |-> BackingLength, scale |-> MaxBaseScale, sample_rate |-> 48000, channels |-> 1,
     channel |-> [k \in 1..BackingLength |-> BackingPair(k - 1)]]

\* resample requests that make a virtual view of the backing waveform: a width
\* above its length, or a scale below its scale
VirtualizingArgs ==
    { WidthArgs(BackingLength + MaxExtraLength), ScaleArgs(MaxBaseScale - 1) }

\* the state after resample returned a DynamicLoadWaveForm, whose constructor
\* made the VirtualChannel
Init ==
    /\ data = << >>
    /\ dataOffset = 0
    /\ xhr = 0
    /\ requests = << >>
    /\ original = BackingWaveform
    /\ view \in { resample(BackingWaveform, args, 0) : args \in VirtualizingArgs }
    /\ refreshCalls = 0
    /\ detached = {}
    /\ BuilderUnused
    /\ last = NoCall
    /\ axis = NoAxis

Next ==
    \/ \E op \in AccessOps, index \in AccessIndices : Access(op, index)
    \/ \E r \in DOMAIN requests, resp \in Responses, pastEnd \in PastEndOutcomes :
          Load(r, resp, pastEnd)
    \/ \E r \in DOMAIN requests : TransportError(r)

\* XMLHttpRequest.abort() stops the request: no load event follows it
Spec == Init /\ [][Next]_vars

NextLateLoad ==
    \/ Next
    \/ \E r \in DOMAIN requests, resp \in Responses, pastEnd \in PastEndOutcomes :
          LateLoad(r, resp, pastEnd)

\* abort() is best effort: the response of an aborted request may still arrive
SpecLateLoad == Init /\ [][NextLateLoad]_vars

\* the same backing waveform at the sample rate of a compact disc
BackingWaveform44100 == [BackingWaveform EXCEPT !.sample_rate = 44100]

\* as Init, the backing waveform having either sample rate
InitProvider ==
    /\ data = << >>
    /\ dataOffset = 0
    /\ xhr = 0
    /\ requests = << >>
    /\ original \in {BackingWaveform, BackingWaveform44100}
    /\ view \in { resample(original, args, 0) : args \in VirtualizingArgs }
    /\ refreshCalls = 0
    /\ detached = {}
    /\ BuilderUnused
    /\ last = NoCall
    /\ axis = NoAxis

\* pixels read: the first pixel and the last pixel of the window around it
ProviderIndices == { 0, 2 * maxWindowSize - 1 }

NextProvider ==
    \/ \E op \in AccessOps, index \in ProviderIndices : Access(op, index)
    \/ \E op \in AccessOps, index \in ProviderIndices : AccessProviderThrows(op, index)
    \/ \E r \in DOMAIN requests, resp \in Responses, pastEnd \in PastEndOutcomes :
          Load(r, resp, pastEnd)
    \/ \E r \in DOMAIN requests : TransportError(r)

\* the caller's detail-request function may raise an exception
SpecProvider == InitProvider /\ [][NextProvider]_vars

(***************************************************************************)
(* DynamicResampleWaveform.resample on the waveforms acquisition delivers  *)
(***************************************************************************)
\* the waveforms _getRemoteWaveformData hands to its callback: 1 or 2 channels
BaseWaveforms ==
    { [length |-> n, scale |-> s, sample_rate |-> r, channels |-> c,
       channel |-> [k \in 1..n |-> BackingPair(k - 1)]] :
         n \in 1..MaxBaseLength, s \in 1..MaxBaseScale, r \in {44100, 48000}, c \in {1, 2} }

\* resample requests: a scale or a width
ResampleArgs ==
    { ScaleArgs(s) : s \in 1..MaxArgument } \cup { WidthArgs(w) : w \in 1..MaxArgument }

\* the state after acquisition delivered the waveform
InitResample ==
    /\ data = << >>
    /\ dataOffset = 0
    /\ xhr = 0
    /\ requests = << >>
    /\ original \in BaseWaveforms
    /\ view = NoView
    /\ refreshCalls = 0
    /\ detached = {}
    /\ BuilderUnused
    /\ last = NoCall
    /\ axis = NoAxis

\* original.resample(args, callback).  The window variables follow the
\* VirtualChannel of the view made last: a new VirtualChannel starts with
\* data = [], dataOffset = 0 and no xhr (lines 165-166), and the requests of the
\* channels made before stay as they are, owned by those channels.
Resample(args, plainLength) ==
    /\ Virtualizes(original, args) \/ plainLength \in PlainLengths(original, args)
    /\ view' = resample(original, args, plainLength)
    /\ data' = << >>
    /\ dataOffset' = 0
    /\ xhr' = 0
    /\ detached' = DOMAIN requests
    /\ last' = [NoCall EXCEPT !.op = "resample", !.args = args,
                               !.calls = ResampleCalls(original, args),
                               !.threw = (resample(original, args, plainLength).kind = "throws"),
                               !.error = resample(original, args, plainLength).error,
                               !.obj = CASE resample(original, args, plainLength).kind = "virtual"
                                              -> "DynamicLoadWaveForm"
                                         [] resample(original, args, plainLength).kind = "plain"
                                              -> "WaveformData"
                                         [] OTHER -> "none"]
    /\ UNCHANGED <<requests, original, refreshCalls>>
    /\ UNCHANGED <<builderVars, axis>>

NextResample ==
    \E args \in ResampleArgs, plainLength \in 0..MaxBaseLength : Resample(args, plainLength)

SpecResample == InitResample /\ [][NextResample]_vars

(***************************************************************************)
(* The views of one DynamicResampleWaveform: resample makes a view, the    *)
(* caller reads the view's channel, responses arrive                       *)
(***************************************************************************)
\* a two-channel waveform, as acquisition may deliver
StereoBackingWaveform == [BackingWaveform EXCEPT !.channels = 2]

\* resample requests on the backing waveform: the virtualizing ones, and a
\* width equal to its length
ViewArgs == VirtualizingArgs \cup { WidthArgs(BackingLength) }

\* arguments given to DynamicLoadWaveForm.resample
ViewResampleArgs == { NoArgs, WidthArgs(1), ScaleArgs(1) }

\* indices given to DynamicLoadWaveForm.channel
ChannelIndices == 0..MaxChannelIndex

\* pixels read through a view: the first pixel and one further on
ViewIndices == { 0, IndexAbove }

\* the state after acquisition delivered the waveform
InitView ==
    /\ data = << >>
    /\ dataOffset = 0
    /\ xhr = 0
    /\ requests = << >>
    /\ original \in { BackingWaveform, StereoBackingWaveform }
    /\ view = NoView
    /\ refreshCalls = 0
    /\ detached = {}
    /\ BuilderUnused
    /\ last = NoCall
    /\ axis = NoAxis

\* view.resample(args) on a DynamicLoadWaveForm
ViewResample(args) ==
    /\ view.kind = "virtual"
    /\ last' = [NoCall EXCEPT !.op = "DynamicLoadWaveForm.resample", !.args = args,
                               !.threw = DynamicLoadWaveForm_resample(args).threw,
                               !.error = DynamicLoadWaveForm_resample(args).error]
    /\ UNCHANGED <<data, dataOffset, xhr, requests, original, view, refreshCalls, detached>>
    /\ UNCHANGED <<builderVars, axis>>

\* view.channel(index) on a DynamicLoadWaveForm
ViewChannel(index) ==
    /\ view.kind = "virtual"
    /\ last' = [NoCall EXCEPT !.op = "DynamicLoadWaveForm.channel", !.index = index,
                               !.threw = channel(index).threw,
                               !.error = channel(index).error,
                               !.obj = channel(index).obj]
    /\ UNCHANGED <<data, dataOffset, xhr, requests, original, view, refreshCalls, detached>>
    /\ UNCHANGED <<builderVars, axis>>

\* xhr.onload of a request whose VirtualChannel belongs to an earlier view: the
\* handler works on that channel's own data, which no variable follows, and
\* invokes the callback given to the resample call that made that view
DetachedLoad(r, resp, pastEnd) ==
    /\ requests[r].state = "sent"
    /\ r \in detached
    /\ requests' = [requests EXCEPT ![r].state = "done"]
    /\ refreshCalls' = IF HandlerAccepts(resp) /\ ~CopyThrows(r, resp, pastEnd)
                       THEN refreshCalls + 1 ELSE refreshCalls
    /\ last' = [NoCall EXCEPT !.op = "load", !.calls = OnLoadCalls(r, resp, pastEnd),
                               !.req = r, !.resp = resp,
                               !.threw = HandlerAccepts(resp) /\ CopyThrows(r, resp, pastEnd)]
    /\ UNCHANGED <<data, dataOffset, xhr, original, view, detached>>
    /\ UNCHANGED <<builderVars, axis>>

NextView ==
    \/ \E args \in ViewArgs, plainLength \in 0..BackingLength : Resample(args, plainLength)
    \/ \E op \in AccessOps, index \in ViewIndices :
          view.kind = "virtual" /\ Access(op, index)
    \/ \E args \in ViewResampleArgs : ViewResample(args)
    \/ \E index \in ChannelIndices : ViewChannel(index)
    \/ \E r \in DOMAIN requests, resp \in Responses, pastEnd \in PastEndOutcomes :
          Load(r, resp, pastEnd)
    \/ \E r \in DOMAIN requests, resp \in Responses, pastEnd \in PastEndOutcomes :
          DetachedLoad(r, resp, pastEnd)
    \/ \E r \in DOMAIN requests : TransportError(r)

SpecView == InitView /\ [][NextView]_vars

(***************************************************************************)
(* One call of WaveformBuilder.init and the events that follow it          *)
(***************************************************************************)
InitBuilder ==
    /\ data = << >>
    /\ dataOffset = 0
    /\ xhr = 0
    /\ requests = << >>
    /\ original = BackingWaveform
    /\ view = NoView
    /\ refreshCalls = 0
    /\ detached = {}
    /\ options \in InitOptions
    /\ window \in Windows
    /\ currentSrc \in {"", "media"}
    /\ topXhr = << >>
    /\ canplayListeners = 0
    /\ audioTasks = << >>
    /\ callbackLog = << >>
    /\ initState = "idle"
    /\ last = NoCall
    /\ axis = NoAxis

NextBuilder ==
    \/ \E created \in Created, raises \in Raises : InitCall(created, raises)
    \/ \E src \in {"", "media"} : CanPlay(src)
    \/ \E r \in DOMAIN topXhr, resp \in TopResponses, raises \in Raises :
          TopLoad(r, resp, raises)
    \/ \E r \in DOMAIN topXhr, raises \in Raises : TopError(r, raises)
    \/ \E t \in DOMAIN audioTasks, result \in AudioResults, raises \in Raises :
          AudioDone(t, result, raises)

SpecBuilder == InitBuilder /\ [][NextBuilder]_vars

(***************************************************************************)
(* Calls of getAxisLabelScale                                              *)
(***************************************************************************)
InitAxis ==
    /\ data = << >>
    /\ dataOffset = 0
    /\ xhr = 0
    /\ requests = << >>
    /\ original = BackingWaveform
    /\ view = NoView
    /\ refreshCalls = 0
    /\ detached = {}
    /\ BuilderUnused
    /\ last = NoCall
    /\ axis = NoAxis

NextAxis ==
    \/ \E v \in AxisViews : getAxisLabelScale(v)
    \/ AxisLoop

\* the loop is synchronous code: once entered it keeps running
SpecAxis == InitAxis /\ [][NextAxis]_vars /\ WF_vars(AxisLoop)

(***************************************************************************)
(* Properties                                                              *)
(***************************************************************************)
\* requests sent, not aborted and not completed
LiveRequests == { r \in DOMAIN requests : requests[r].state = "sent" }

\* the step just taken was an accessor call that refreshed the window
Refreshed == last.op \in AccessOps /\ last.calls # << >>

\* C1: at most one detail fetch of a VirtualChannel is live (sent, not aborted,
\* not completed) in every reachable state, and a refresh that finds a stored
\* request calls abort() on it before it sends the new request.
C1_AtMostOneLiveFetch ==
    /\ Cardinality(LiveRequests) <= 1
    /\ Refreshed =>
          /\ LiveRequests = {Len(requests)}
          /\ Len(requests) > 1 =>
                \E a, b \in DOMAIN last.calls :
                    a < b /\ last.calls[a] = "abort" /\ last.calls[b] = "send"

\* C1 witness: a second refresh found the first request in flight and aborted it
C1_Witness_SupersededFetchAborted ==
    /\ Refreshed
    /\ Len(requests) = 2
    /\ requests[1].state = "aborted"
    /\ requests[2].state = "sent"

\* requests that a step cancels
NewlyAborted ==
    { r \in DOMAIN requests : requests[r].state = "sent" /\ requests'[r].state = "aborted" }

\* C2: the response of a fetch issued for an earlier window never changes the
\* data of a window installed later and never invokes the refresh callback,
\* also when the abort of the superseded request came too late to stop the
\* response.  (The load handler writes into this.data whatever window it holds.)
C2_StaleResponseIgnored ==
    [][\A r \in DOMAIN requests :
          (last'.op = "load" /\ last'.req = r /\ r < Len(requests))
              => (data' = data /\ refreshCalls' = refreshCalls)]_vars

\* C3: an access to an index outside the resident window issues exactly one
\* fetch and aborts at most one request; an access to an index inside the
\* resident window issues no fetch, aborts nothing and leaves the window alone.
C3_OneFetchPerOutsideAccess ==
    [][last'.op \in AccessOps =>
          IF in_range(last'.index)
          THEN UNCHANGED <<data, dataOffset, xhr, requests>>
          ELSE /\ Len(requests') = Len(requests) + 1
               /\ requests'[Len(requests')].state = "sent"
               /\ Cardinality(NewlyAborted) <= 1]_vars

\* C4: after every accessor call the accessed index lies inside the resident
\* window [dataOffset, dataOffset + size), and the call is a no-op exactly when
\* the index already lay in that range.
C4_AccessedIndexInsideWindow ==
    [][last'.op \in AccessOps =>
          /\ last'.index >= dataOffset'
          /\ last'.index < dataOffset' + Len(data') \div 2
          /\ in_range(last'.index) <=> UNCHANGED <<data, dataOffset, xhr, requests>>]_vars

\* the (min, max) pair a window array holds for pixel j of a window at offset off
PairAt(arr, off, j) == <<At(arr, (j - off) * 2), At(arr, (j - off) * 2 + 1)>>

\* pixels of the resident window
WindowIndices == dataOffset..(dataOffset + WindowSize - 1)

\* integers among which a backing index is looked for
IndexSearchRange ==
    (0 - (IndexAbove + maxWindowSize + 2))..(IndexAbove + maxWindowSize + 2)

\* round(0.5 + j * samplesPerPixel / backingScale): the integer b nearest to
\* x = 0.5 + j * samplesPerPixel / backingScale, a half rounding up:
\* b - 1/2 <= x < b + 1/2, with j * samplesPerPixel / backingScale = p / q
RoundedBackingIndex(j) ==
    CHOOSE b \in IndexSearchRange :
        LET p == view.samples_per_pixel.num
            q == view.samples_per_pixel.den * original.scale
        IN  2 * b * q - q <= q + 2 * j * p /\ q + 2 * j * p < 2 * b * q + q

\* C5: right after ensureIndexAvailable installs a new window, every index j of
\* the new window that was not in the previous window holds the backing pair at
\* round(0.5 + j * samplesPerPixel / backingScale) when that index is inside the
\* backing channel, and is unpopulated otherwise.
C5_NewIndicesSeededFromBacking ==
    [][(last'.op \in AccessOps /\ last'.calls # << >>) =>
          \A j \in dataOffset'..(dataOffset' + Len(data') \div 2 - 1) :
              ~in_range(j) =>
                  LET b == RoundedBackingIndex(j)
                  IN  IF b >= 0 /\ b < original.length
                      THEN PairAt(data', dataOffset', j) =
                               <<Num(original.channel[b + 1].min), Num(original.channel[b + 1].max)>>
                      ELSE PairAt(data', dataOffset', j) = <<undefined, undefined>>]_vars

\* C5 witness: a second refresh installed a window that overlaps the first one
\* and holds, outside the overlap, a seeded pixel and an unpopulated pixel
C5_Witness_OverlappingWindowSeeded ==
    /\ Refreshed
    /\ Len(requests) = 2
    /\ requests[1].from < requests[2].from
    /\ requests[2].from < requests[1].to
    /\ \E j, k \in WindowIndices :
          /\ j >= requests[1].to
          /\ k >= requests[1].to
          /\ PairAt(data, dataOffset, j)[1].def
          /\ ~PairAt(data, dataOffset, k)[1].def

\* C6: when a fetch completes with status 200 and a one-channel payload while
\* its window is the resident one, window pixel dataOffset + k holds pair k of
\* the resampled response for every k below min(spanSize, responseLength), and
\* every other pixel of the window keeps its pair.
C6_ResponseCopiedExactly ==
    [][\A r \in DOMAIN requests :
          (last'.op = "load" /\ last'.req = r /\ r = Len(requests)
                /\ last'.resp.status = 200 /\ last'.resp.channels = 1) =>
              LET n == Min2(requests[r].to - requests[r].from, last'.resp.length)
                  resampled == last'.resp.resampled
              IN  \A k \in 0..(WindowSize - 1) :
                      IF k < n
                      THEN /\ k < Len(resampled)
                           /\ PairAt(data', 0, k) =
                                  <<Num(resampled[k + 1].min), Num(resampled[k + 1].max)>>
                      ELSE PairAt(data', 0, k) = PairAt(data, 0, k)]_vars

\* C7: a detail fetch that completes with a status other than 200 leaves the
\* window's offset and data as they were, invokes neither the refresh callback
\* nor the acquisition callback, and raises nothing.
C7_FailedFetchChangesNothing ==
    [][(last'.op = "load" /\ last'.resp.status # 200) =>
          /\ data' = data
          /\ dataOffset' = dataOffset
          /\ refreshCalls' = refreshCalls
          /\ ~last'.threw
          /\ \A c \in DOMAIN last'.calls :
                last'.calls[c] \notin {"refreshCallback", "callback"}]_vars

\* C7 witness: a 404 arrived for a window that holds seeded pairs
C7_Witness_NotFoundOnSeededWindow ==
    /\ last.op = "load"
    /\ last.resp.status = 404
    /\ refreshCalls = 0
    /\ \E j \in WindowIndices : PairAt(data, dataOffset, j)[1].def

\* C8: min_sample(i) and max_sample(i) return 0 when the pair of pixel i is
\* unpopulated after the synchronous part of the access.
C8_UnpopulatedReadsZero ==
    /\ (last.op = "min_sample" /\ ~PairAt(data, dataOffset, last.index)[1].def)
          => last.ret = Num(0)
    /\ (last.op = "max_sample" /\ ~PairAt(data, dataOffset, last.index)[2].def)
          => last.ret = Num(0)

\* C9: in every reachable state min_sample(i) <= max_sample(i) for every pixel i
\* of the resident window (the backing channel and every response have
\* min <= max at each index).  A comparison with undefined is false.
C9_WindowPairsOrdered ==
    \A i \in WindowIndices :
        LET p == PairAt(data, dataOffset, i)
        IN  p[1].def /\ p[2].def /\ p[1].v <= p[2].v

\* every populated pair of the window is ordered, and a pair is populated or
\* unpopulated as a whole
PopulatedPairsOrdered ==
    \A i \in WindowIndices :
        LET p == PairAt(data, dataOffset, i)
        IN  /\ p[1].def <=> p[2].def
            /\ p[1].def => p[1].v <= p[2].v

\* the target length of the resample request just made, as the claim computes
\* it: duration * sampleRate / scale = length * baseScale / scale when a scale
\* is given, otherwise the width
RequestedLength ==
    IF last.args.scale # 0
    THEN Frac(original.length * original.scale, last.args.scale)
    ELSE Frac(last.args.width, 1)

RequestExceedsBase == RequestedLength.num > original.length * RequestedLength.den

SameFraction(f, g) == f.num * g.den = g.num * f.den

\* C10 as claimed: for a base waveform of 1 or 2 channels resample returns a
\* VirtualWaveform if and only if the target length exceeds the base length, and
\* otherwise a plain downsampled waveform whose length equals the target length.
C10_VirtualIffLonger ==
    last.op = "resample" =>
        /\ view.kind = "virtual" <=> RequestExceedsBase
        /\ ~RequestExceedsBase =>
              view.kind = "plain" /\ SameFraction(view.length, RequestedLength)

\* C10 as amended: resample returns a VirtualWaveform of the target length if
\* and only if the target length exceeds the base length and the base waveform
\* has one channel; with two channels and a target length above the base length
\* it raises an error; otherwise it returns the library's downsampled waveform.
C10_VirtualIffLongerAndMono ==
    last.op = "resample" =>
        /\ view.kind = "virtual" <=> (RequestExceedsBase /\ original.channels = 1)
        /\ view.kind = "throws" <=> (RequestExceedsBase /\ original.channels # 1)
        /\ view.kind = "plain" <=> ~RequestExceedsBase
        /\ view.kind = "virtual" => SameFraction(view.length, RequestedLength)
        /\ last.threw <=> view.kind = "throws"

\* C10 witness: a two-channel waveform was asked for more pixels than it has
C10_Witness_StereoVirtualizeRaises ==
    /\ last.op = "resample"
    /\ original.channels = 2
    /\ RequestExceedsBase
    /\ view.kind = "throws"

\* C11: DynamicResampleWaveform.resample issues no network request and invokes
\* no callback, in the downsampling branch and in the virtualizing branch; a
\* detail fetch is issued only by an accessor call on the virtual channel for
\* an index outside the window resident before the call.
C11_ResampleIssuesNoFetch ==
    [][/\ last'.op = "resample" =>
             /\ requests' = requests
             /\ refreshCalls' = refreshCalls
             /\ \A c \in DOMAIN last'.calls :
                   last'.calls[c] \notin {"open", "send", "refreshCallback", "callback"}
       /\ Len(requests') > Len(requests) =>
             /\ last'.op \in AccessOps
             /\ ~in_range(last'.index)
             /\ view.kind = "virtual"]_vars

\* C11 witness: after resample made a virtual view without a fetch, an accessor
\* call for a pixel outside the window issued the first fetch
C11_Witness_FirstFetchByAccessor ==
    /\ Refreshed
    /\ view.kind = "virtual"
    /\ Len(requests) = 1
    /\ detached = {}

\* C12: a VirtualWaveform made for the target length L over a backing waveform
\* of length N and scale S reports length L, the backing waveform's sample_rate
\* and channel count, and a scale samplesPerPixel with samplesPerPixel * L = S * N.
C12_VirtualWaveformGetters ==
    (last.op = "resample" /\ view.kind = "virtual") =>
        /\ SameFraction(get_length(view), RequestedLength)
        /\ get_sample_rate(view) = original.sample_rate
        /\ get_channels(view) = original.channels
        /\ get_scale(view).num * RequestedLength.num
              = original.scale * original.length * get_scale(view).den * RequestedLength.den

\* C12 witness: a virtual view whose samplesPerPixel is no integer, over a
\* backing waveform sampled at 44100 Hz
C12_Witness_FractionalSamplesPerPixel ==
    /\ last.op = "resample"
    /\ view.kind = "virtual"
    /\ original.sample_rate = 44100
    /\ get_scale(view).num % get_scale(view).den # 0

\* C13: resample(args) on a VirtualWaveform raises for every args in every
\* state, leaves the channel's window and request handle alone and issues no
\* fetch.
C13_VirtualResampleAlwaysRaises ==
    [][last'.op = "DynamicLoadWaveForm.resample" =>
          /\ last'.threw
          /\ last'.error = "A resampled waveform can't be resampled"
          /\ UNCHANGED <<data, dataOffset, xhr, requests, view, refreshCalls>>]_vars

\* C13 witness: resample({width: 1}) raised on a view whose fetch is in flight
C13_Witness_RaisedWhileFetching ==
    /\ last.op = "DynamicLoadWaveForm.resample"
    /\ last.args.width # 0
    /\ last.threw
    /\ LiveRequests # {}

\* C14: making a VirtualWaveform over a backing waveform whose channel count is
\* not 1 raises and creates no channel; on a VirtualWaveform channel(i) raises
\* for every i other than 0 and channel(0) returns the virtual channel.
C14_MonoOnly ==
    /\ (last.op = "resample" /\ RequestExceedsBase /\ original.channels # 1) =>
          /\ last.threw
          /\ view.kind = "throws"
          /\ \A c \in DOMAIN last.calls : last.calls[c] # "new VirtualChannel"
    /\ last.op = "DynamicLoadWaveForm.channel" =>
          IF last.index = 0
          THEN ~last.threw /\ last.obj = "VirtualChannel"
          ELSE last.threw /\ last.obj = "none"

\* C14 witness: channel(1) raised on a constructed VirtualWaveform
C14_Witness_InvalidChannelRaises ==
    /\ last.op = "DynamicLoadWaveForm.channel"
    /\ last.index = 1
    /\ last.threw
    /\ view.kind = "virtual"

\* number of sources given among dataUri, waveformData and webAudio/audioContext
SourceCount(o) ==
    (IF DataUriSet(o) THEN 1 ELSE 0) + (IF WaveformDataSet(o) THEN 1 ELSE 0)
        + (IF WebAudioSet(o) \/ AudioContextSet(o) THEN 1 ELSE 0)

\* the step is the call of init
InitStep == initState = "idle" /\ last'.op = "WaveformBuilder.init"

\* the invocations of the callback are one invocation with an error and no
\* waveform
OneErrorOnly(log) ==
    /\ Len(log) = 1
    /\ log[1].error # ""
    /\ log[1].waveform = NoResult

\* C15: init with no source, or with two or more sources among dataUri,
\* waveformData and webAudio/audioContext, invokes the callback with an error
\* and no waveform, raises nothing of its own and issues no network request.
C15_NotOneSourceIsError ==
    [][(InitStep /\ SourceCount(options) # 1) =>
          /\ OneErrorOnly(callbackLog')
          /\ last'.threw => callbackLog'[1].raised
          /\ topXhr' = << >>
          /\ audioTasks' = << >>
          /\ canplayListeners' = 0
          /\ requests' = requests]_vars

\* C15 witness: init was called with both dataUri and waveformData and the
\* callback got the error
C15_Witness_TwoSourcesRejected ==
    /\ last.op = "WaveformBuilder.init"
    /\ DataUriSet(options)
    /\ WaveformDataSet(options)
    /\ OneErrorOnly(callbackLog)
    /\ initState = "returned"

\* C16: init with both the deprecated audioContext option and a webAudio option,
\* and no other source, reports an error through the callback and delivers no
\* waveform.
C16_BothAudioOptionsIsError ==
    [][(InitStep /\ AudioContextSet(options) /\ WebAudioSet(options)
            /\ ~DataUriSet(options) /\ ~WaveformDataSet(options)) =>
          OneErrorOnly(callbackLog')]_vars

\* C17: the callback is invoked at most once for one call of init, on every
\* path, also when the callback itself raises.
C17_CallbackAtMostOnce == Len(callbackLog) <= 1

\* init has returned or raised and nothing it started is still to come: no
\* request in flight, no canplay listener waiting, no createFromAudio pending
Quiescent ==
    /\ initState # "idle"
    /\ \A r \in DOMAIN topXhr : topXhr[r].state # "sent"
    /\ canplayListeners = 0
    /\ \A t \in DOMAIN audioTasks : audioTasks[t].state # "pending"

\* C18: the callback is eventually invoked on every path, given that every
\* request completes and the media element becomes playable: once everything
\* init started has completed, the callback has been invoked.
C18_CallbackEventuallyInvoked == Quiescent => Len(callbackLog) >= 1

\* C19: whenever the callback receives a waveform the error argument is null
\* and the waveform has 1 or 2 channels, on every path; whenever it receives an
\* error it receives no waveform.
C19_DeliveredWaveformValid ==
    \A k \in DOMAIN callbackLog :
        /\ callbackLog[k].waveform # NoResult =>
              callbackLog[k].error = "" /\ callbackLog[k].waveform.channels \in {1, 2}
        /\ callbackLog[k].error # "" => callbackLog[k].waveform = NoResult

\* C20: in the remote path a top-level fetch that ends with a status other than
\* 200 or with a transport error invokes the callback with an error and no
\* waveform, and so does a 200 response decoded to a channel count outside
\* {1, 2}.
C20_RemoteFailureIsError ==
    [][(/\ last'.op \in {"top.load", "top.error"}
        /\ last'.req \in DOMAIN topXhr
        /\ topXhr[last'.req].kind = "remote"
        /\ \/ last'.op = "top.error"
           \/ last'.resp.status # 200
           \/ last'.resp.channels > 2) =>
          /\ Len(callbackLog') = Len(callbackLog) + 1
          /\ callbackLog'[Len(callbackLog')].error # ""
          /\ callbackLog'[Len(callbackLog')].waveform = NoResult]_vars

\* C20 witness: the remote fetch ended with status 200 and a three-channel
\* waveform, and the callback got an error
C20_Witness_ThreeChannelsRejected ==
    /\ last.op = "top.load"
    /\ topXhr[last.req].kind = "remote"
    /\ last.resp.status = 200
    /\ last.resp.channels = 3
    /\ OneErrorOnly(callbackLog)

\* the local-data path fails: waveformData is no object, it holds neither a
\* JSON object nor a binary buffer, the parser raises, or the channel count is
\* outside {1, 2}
LocalFailure(o, created) ==
    \/ o.waveformData # "object"
    \/ ~(o.waveformDataJson \/ o.waveformDataArraybuffer)
    \/ created.threw
    \/ created.channels \notin {1, 2}

\* every invocation of the callback in the log carries an error and no waveform
ErrorsOnly(log) ==
    /\ Len(log) >= 1
    /\ \A k \in DOMAIN log : log[k].error # "" /\ log[k].waveform = NoResult

\* C21: in the local-data path every failure (waveformData not an object, no
\* JSON object and no binary buffer, the parser raising, a channel count outside
\* {1, 2}) reaches the callback as its error argument with no waveform, and no
\* exception escapes init other than one the callback itself raised.
C21_LocalFailureIsError ==
    [][\A created \in Created, raises \in Raises :
          (/\ InitCall(created, raises)
           /\ SourceCount(options) = 1 /\ WaveformDataSet(options)
           /\ LocalFailure(options, created)) =>
              /\ ErrorsOnly(callbackLog')
              /\ last'.threw => callbackLog'[Len(callbackLog')].raised
              /\ initState' = "threw" <=> last'.threw
              /\ topXhr' = << >> /\ canplayListeners' = 0 /\ audioTasks' = << >>]_vars

\* C21 witness: the parser raised on the local data and the callback got the
\* error
C21_Witness_ParserErrorDelivered ==
    /\ last.op = "WaveformBuilder.init"
    /\ last.calls = <<"WaveformData.create", "callback">>
    /\ OneErrorOnly(callbackLog)
    /\ callbackLog[1].error = "raised by WaveformData.create"
    /\ initState = "returned"

\* C22: every window installed by ensureIndexAvailable(i) spans exactly
\* [i - maxWindowSize, i + maxWindowSize): the resident window holds 0 pairs
\* (before the first refresh) or exactly 2 * maxWindowSize pairs, and no response
\* handler changes the window's offset or its size.
C22_WindowSpanFixed ==
    /\ Len(data) = 0
    /\ [][/\ WindowSize' \in {0, 2 * maxWindowSize}
          /\ Len(data') = 2 * WindowSize'
          /\ (last'.op \in AccessOps /\ last'.calls # << >>) =>
                /\ dataOffset' = last'.index - maxWindowSize
                /\ WindowSize' = 2 * maxWindowSize
          /\ last'.op \in {"load", "error"} =>
                (dataOffset' = dataOffset /\ Len(data') = Len(data))]_vars

\* C22 witness: a response longer than the span was copied into a full window
\* whose offset and size stayed as the refresh left them
C22_Witness_LongResponseCopied ==
    /\ last.op = "load"
    /\ HandlerAccepts(last.resp)
    /\ last.resp.length > 2 * maxWindowSize
    /\ Len(last.resp.resampled) > 2 * maxWindowSize
    /\ ~last.threw
    /\ WindowSize = 2 * maxWindowSize
    /\ dataOffset = requests[last.req].from

\* C23: when ensureIndexAvailable replaces the window, every index that lies in
\* both the previous window and the new one keeps exactly the pair it had before
\* (a pair written by an earlier response as well as an unpopulated pair), and
\* is not seeded again from the backing channel.
C23_OverlapCarriedOver ==
    [][(last'.op \in AccessOps /\ last'.calls # << >>) =>
          \A i \in WindowIndices :
              (i >= dataOffset' /\ i < dataOffset' + WindowSize') =>
                  PairAt(data', dataOffset', i) = PairAt(data, dataOffset, i)]_vars

\* C23 witness: the second refresh carried over a pair that the response of the
\* first request had written
C23_Witness_ResponsePairCarriedOver ==
    /\ Refreshed
    /\ Len(requests) = 2
    /\ requests[1].state = "done"
    /\ \E i \in WindowIndices :
          /\ i >= requests[1].from /\ i < requests[1].to
          /\ PairAt(data, dataOffset, i) =
                <<Num(ResponsePair(i - requests[1].from).min),
                  Num(ResponsePair(i - requests[1].from).max)>>

\* C24: a detail response with status 200 whose decoded channel count is not
\* exactly 1 is rejected: the window's data and offset are unchanged, the
\* refresh callback is not invoked and nothing is raised.
C24_MultiChannelResponseRejected ==
    [][(last'.op = "load" /\ last'.resp.status = 200 /\ last'.resp.channels # 1) =>
          /\ data' = data
          /\ dataOffset' = dataOffset
          /\ refreshCalls' = refreshCalls
          /\ "refreshCallback" \notin { last'.calls[k] : k \in DOMAIN last'.calls }
          /\ ~last'.threw]_vars

\* C24 witness: a two-channel response with status 200 arrived for the request
\* of the resident window and was logged
C24_Witness_TwoChannelResponseLogged ==
    /\ last.op = "load"
    /\ last.resp.status = 200
    /\ last.resp.channels = 2
    /\ last.req = xhr
    /\ last.calls = <<"WaveformData.create", "console.log">>
    /\ WindowSize = 2 * maxWindowSize
    /\ refreshCalls = 0

\* C25: the VirtualChannel never issues a fetch on its own, in particular not
\* after a fetch failed: the number of fetches issued grows only in an access
\* whose index is outside the resident window, and then by one; an access inside
\* the window, also one whose fetch failed, issues nothing, and neither a
\* response nor a transport error does.
C25_NoAutomaticRetry ==
    [][/\ Len(requests') > Len(requests) =>
             /\ Len(requests') = Len(requests) + 1
             /\ last'.op \in AccessOps
             /\ ~in_range(last'.index)
       /\ (last'.op \in AccessOps /\ in_range(last'.index)) =>
             /\ requests' = requests
             /\ xhr' = xhr
             /\ last'.calls = << >>
       /\ last'.op \in {"load", "error"} =>
             /\ Len(requests') = Len(requests)
             /\ xhr' = xhr
             /\ \A r \in DOMAIN requests : requests'[r].state # "sent" \/ r # last'.req]_vars

\* C25 witness: the fetch of the resident window failed with a transport error,
\* and a later access inside that window issued no new fetch
C25_Witness_NoFetchAfterFailure ==
    /\ last.op \in AccessOps
    /\ last.calls = << >>
    /\ xhr # 0
    /\ xhr = Len(requests)
    /\ requests[xhr].state = "failed"
    /\ in_range(last.index)
    /\ LiveRequests = {}

\* the time in seconds of window bound n:
\* n * samplesPerPixel / backingSampleRate
SecondsOfPixel(n) ==
    LET s == Reduce(view.samples_per_pixel)
    IN  Reduce(Frac(n * s.num, s.den * original.sample_rate))

\* number of entries of a sequence of calls that name c
CallCount(calls, c) == Cardinality({ k \in DOMAIN calls : calls[k] = c })

\* C26: on every window refresh the detail-request function is invoked exactly
\* once, with fromSeconds = from * samplesPerPixel / backingSampleRate and
\* toSeconds = to * samplesPerPixel / backingSampleRate, [from, to) being the new
\* window span, for every sample rate of the backing waveform.
C26_ProviderGivenSeconds ==
    (Refreshed /\ ~last.threw) =>
        /\ CallCount(last.calls, "detailUriProvider") = 1
        /\ requests[Len(requests)].from = dataOffset
        /\ requests[Len(requests)].to = dataOffset + WindowSize
        /\ requests[Len(requests)].fromSeconds = SecondsOfPixel(dataOffset)
        /\ requests[Len(requests)].toSeconds = SecondsOfPixel(dataOffset + WindowSize)

\* the indices the copy loop of the load handler reads from the resampled
\* channel: every dataIdx below numSamplesToCopy, or, when the library raises
\* on a read past the end, every dataIdx up to the one whose read raised
IndicesRead(r, resp, pastEnd) ==
    IF CopyThrows(r, resp, pastEnd)
    THEN 0..Len(resp.resampled)
    ELSE 0..(numSamplesToCopy(r, resp) - 1)

\* C27: when the fetch of the resident window completes with status 200 and a
\* one-channel payload, the refresh callback is invoked, exactly once for that
\* fetch and after the response pairs were written into the window.  (The load
\* handler is the only place that invokes the callback for a fetch, so a
\* handler that ends without invoking it leaves the callback never invoked.)
C27_RefreshCallbackAfterSuccess ==
    [][(last'.op = "load" /\ last'.req = xhr /\ HandlerAccepts(last'.resp)) =>
          /\ refreshCalls' = refreshCalls + 1
          /\ CallCount(last'.calls, "refreshCallback") = 1
          /\ last'.calls[Len(last'.calls)] = "refreshCallback"
          /\ ~last'.threw]_vars

\* C28: the previously outstanding fetch is cancelled before the new window is
\* computed and installed: in no state is a window resident while the stored
\* fetch, still uncancelled, is the fetch of another window.
C28_AbortBeforeInstall ==
    (xhr # 0 /\ requests[xhr].state = "sent") =>
        /\ requests[xhr].from = dataOffset
        /\ requests[xhr].to = dataOffset + WindowSize

\* C29: when the detail-request function raises during a window refresh, the
\* VirtualChannel's state is as before the access: data, offset, stored request
\* and requests are unchanged, so no fetch runs against a moved window.
C29_ProviderRaisesStateKept ==
    [][(last'.op \in AccessOps /\ last'.threw) =>
          /\ data' = data
          /\ dataOffset' = dataOffset
          /\ xhr' = xhr
          /\ requests' = requests
          /\ \A r \in LiveRequests : requests[r].from = dataOffset']_vars

\* C30: every index the load handler reads from the resampled channel lies in
\* [0, resampledLength), also when resampling made the response shorter than it
\* was before.
C30_ReadsInsideResampled ==
    [][(last'.op = "load" /\ HandlerAccepts(last'.resp)) =>
          \A pastEnd \in PastEndOutcomes :
              \A k \in IndicesRead(last'.req, last'.resp, pastEnd) :
                  k >= 0 /\ k < Len(last'.resp.resampled)]_vars

\* a <= b for fractions with positive denominators
FracLeq(a, b) == a.num * b.den <= b.num * a.den

\* the duration of the backing waveform in seconds, as the library has it:
\* length * scale / sample_rate
Duration == Reduce(Frac(original.length * original.scale, original.sample_rate))

\* C31: for a virtual channel of virtual length L, every window installed for an
\* accessed index i in [0, L) and the time range given to the detail-request
\* function stay inside the waveform: offset >= 0, offset + size <= L,
\* fromSeconds >= 0 and toSeconds <= duration.
C31_WindowInsideWaveform ==
    (/\ Refreshed
     /\ last.index >= 0
     /\ last.index * view.length.den < view.length.num) =>
        /\ dataOffset >= 0
        /\ (dataOffset + WindowSize) * view.length.den <= view.length.num
        /\ requests[Len(requests)].fromSeconds.num >= 0
        /\ FracLeq(requests[Len(requests)].toSeconds, Duration)

\* floor(j * samplesPerPixel / backingScale): the backing pixel whose sample
\* span contains the first sample of virtual pixel j
FlooredBackingIndex(j) ==
    CHOOSE b \in IndexSearchRange :
        LET p == view.samples_per_pixel.num
            q == view.samples_per_pixel.den * original.scale
        IN  b * q <= j * p /\ j * p < (b + 1) * q

\* C32: seeding is time-aligned: a virtual pixel j in [0, virtualLength) that a
\* refresh seeds gets the pair of backing index floor(j * samplesPerPixel /
\* backingScale), which lies in [0, backingLength); virtual pixel 0 is seeded
\* from backing pixel 0.
C32_SeedingTimeAligned ==
    [][(last'.op \in AccessOps /\ last'.calls # << >> /\ ~last'.threw) =>
          \A j \in dataOffset'..(dataOffset' + Len(data') \div 2 - 1) :
              (~in_range(j) /\ j >= 0 /\ j * view.length.den < view.length.num) =>
                  LET b == FlooredBackingIndex(j)
                  IN  /\ b >= 0 /\ b < original.length
                      /\ j = 0 => b = 0
                      /\ PairAt(data', dataOffset', j) =
                            <<Num(original.channel[b + 1].min),
                              Num(original.channel[b + 1].max)>>]_vars

\* C33: across the views that successive resample calls make, at most one
\* detail fetch is in flight at a time: making a replacement view cancels the
\* outstanding fetch of the view it replaces, and a replaced view does not
\* invoke its refresh callback afterwards.
C33_OneFetchAcrossViews ==
    [][/\ Cardinality({ r \in DOMAIN requests' : requests'[r].state = "sent" }) <= 1
       /\ \A r \in detached' : requests'[r].state # "sent"
       /\ (last'.op = "load" /\ last'.req \in detached) =>
             refreshCalls' = refreshCalls]_vars

\* C34 as claimed: for every VirtualWaveform, samplesPerPixel = backingScale *
\* backingLength / virtualLength is greater than or equal to the backing
\* waveform's scale.
C34_SamplesPerPixelAtLeastScale ==
    (last.op = "resample" /\ view.kind = "virtual") =>
        /\ SameFraction(get_scale(view),
                        Frac(original.scale * original.length * RequestedLength.den,
                             RequestedLength.num))
        /\ get_scale(view).num >= original.scale * get_scale(view).den

\* C34 as amended: for every VirtualWaveform, samplesPerPixel = backingScale *
\* backingLength / virtualLength is positive and strictly less than the backing
\* waveform's scale, the virtual length being above the backing length.
C34_SamplesPerPixelBelowScale ==
    (last.op = "resample" /\ view.kind = "virtual") =>
        /\ SameFraction(get_scale(view),
                        Frac(original.scale * original.length * RequestedLength.den,
                             RequestedLength.num))
        /\ RequestExceedsBase
        /\ get_scale(view).num > 0 /\ get_scale(view).den > 0
        /\ get_scale(view).num < original.scale * get_scale(view).den

\* C34 witness: a width above the backing length made a view whose
\* samplesPerPixel is below the backing scale
C34_Witness_FinerThanBacking ==
    /\ last.op = "resample"
    /\ last.args.width > original.length
    /\ view.kind = "virtual"
    /\ get_scale(view).num < original.scale * get_scale(view).den

\* C35: every successful acquisition hands the caller a ResamplingWaveform (a
\* DynamicResampleWaveform, which carries the caller's detailUriProvider and can
\* make virtual views), whichever source was used.
C35_AcquisitionGivesResamplingWaveform ==
    \A k \in DOMAIN callbackLog :
        callbackLog[k].waveform # NoResult =>
            callbackLog[k].waveform.kind = "DynamicResampleWaveform"

\* the URL the options give for a format ("" when they give none): a member of
\* an object dataUri, or a string dataUri for the format dataUriDefaultFormat
\* names, json when it names none
UrlFor(o, format) ==
    CASE o.dataUri = "object" /\ format = "arraybuffer" /\ o.dataUriArraybuffer
            -> "dataUri.arraybuffer"
      [] o.dataUri = "object" /\ format = "json" /\ o.dataUriJson -> "dataUri.json"
      [] o.dataUri = "string" /\ format = "arraybuffer"
            /\ o.dataUriDefaultFormat = "arraybuffer" -> "dataUri"
      [] o.dataUri = "string" /\ format = "json"
            /\ o.dataUriDefaultFormat \in {"none", "json"} -> "dataUri"
      [] OTHER -> ""

\* the format the claim chooses: binary first, JSON second, "" when neither
\* yields a URL
ChosenFormat(o, win) ==
    CASE win.ArrayBuffer /\ UrlFor(o, "arraybuffer") # "" -> "arraybuffer"
      [] win.JSON /\ UrlFor(o, "json") # "" -> "json"
      [] OTHER -> ""

AudioRequests(x) == { r \in DOMAIN x : x[r].kind = "audio" }

\* the options take init into the audio-derived path with a valid AudioContext
\* and no decoded audio buffer
AudioPathWithoutBuffer(o) ==
    /\ ~DataUriSet(o) /\ ~WaveformDataSet(o)
    /\ \/ AudioContextSet(o) /\ o.audioContext = "valid"
       \/ ~AudioContextSet(o) /\ WebAudioSet(o) /\ o.webAudio.audioContext = "valid"
                              /\ ~o.webAudio.audioBuffer

\* C37: in the audio-derived path without a decoded audio buffer the raw-audio
\* request is issued at most once per init call and never before a media source
\* URL is known: by init itself when mediaElement.currentSrc is set, otherwise
\* only by the first player.canplay event after init, for the source the media
\* element then has; a further canplay event issues no request.
C37_AudioRequestOnceSourceKnown ==
    [][/\ Cardinality(AudioRequests(topXhr')) <= 1
       /\ \A r \in AudioRequests(topXhr') : topXhr'[r].url # ""
       /\ \A r \in AudioRequests(topXhr') \ AudioRequests(topXhr) :
             \/ /\ last'.op = "WaveformBuilder.init"
                /\ currentSrc # "" /\ topXhr'[r].url = currentSrc
                /\ canplayListeners' = 0
             \/ /\ last'.op = "canplay"
                /\ canplayListeners = 1 /\ canplayListeners' = 0
                /\ currentSrc' # "" /\ topXhr'[r].url = currentSrc'
       /\ (InitStep /\ canplayListeners' > 0) =>
             (currentSrc = "" /\ canplayListeners' = 1 /\ topXhr' = << >>)
       /\ (InitStep /\ AudioPathWithoutBuffer(options)) =>
             IF currentSrc # ""
             THEN Cardinality(AudioRequests(topXhr')) = 1 /\ canplayListeners' = 0
             ELSE topXhr' = << >> /\ canplayListeners' = 1
       /\ (last'.op = "canplay" /\ canplayListeners = 0) => topXhr' = topXhr
       /\ canplayListeners' <= canplayListeners \/ InitStep]_vars

\* C37 witness: init found no media source and waited; the canplay event then
\* issued the raw-audio request for the source the media element had
C37_Witness_RequestAfterCanPlay ==
    /\ last.op = "canplay"
    /\ last.calls = <<"open", "send">>
    /\ AudioRequests(topXhr) = {1}
    /\ topXhr[1].url = currentSrc
    /\ topXhr[1].state = "sent"
    /\ canplayListeners = 0
    /\ callbackLog = << >>

RECURSIVE PowerOf60(_)
PowerOf60(k) == IF k = 0 THEN 1 ELSE 60 * PowerOf60(k - 1)

\* value number k (from 0) of the sequence 1, 2, 5, 10, 20, 30, 60, 120, 300,
\* 600, 1200, 1800, 3600, ...
LabelScale(k) == steps[(k % 6) + 1] * PowerOf60(k \div 6)

\* the view's timeToPixels reaches minSpacing at one of the first MaxIterations
\* values of the sequence
ReachesMinSpacing(v) ==
    \E k \in 0..(MaxIterations - 1) : timeToPixels(v, LabelScale(k)) >= minSpacing

\* C38: getAxisLabelScale terminates for a view whose timeToPixels reaches 60
\* and returns the first value s of the sequence 1, 2, 5, 10, 20, 30, 60, 120,
\* 300, ... with view.timeToPixels(s) >= 60; for a view whose timeToPixels never
\* reaches 60 (it is constantly 0) the loop never ends.
C38_AxisLabelScale ==
    /\ [](axis.pc = "done" =>
             \E k \in 0..(MaxIterations - 1) :
                 /\ axis.secs = LabelScale(k)
                 /\ axis.iterations = k + 1
                 /\ timeToPixels(axis.view, LabelScale(k)) >= minSpacing
                 /\ \A j \in 0..(k - 1) :
                       timeToPixels(axis.view, LabelScale(j)) < minSpacing)
    /\ [](~ReachesMinSpacing(axis.view) => axis.pc # "done")
    /\ (axis.pc = "loop" /\ ReachesMinSpacing(axis.view)) ~> (axis.pc = "done")

\* C38 witness: for a view of one pixel per 100 seconds the loop went through
\* the seconds and the minutes and returned a number of hours
C38_Witness_HoursReturned ==
    /\ axis.pc = "done"
    /\ axis.secs > 3600
    /\ axis.secs % 3600 = 0
    /\ timeToPixels(axis.view, 3600) < minSpacing

====
